---------------------------- MODULE Spec2Model ----------------------------
(***************************************************************************)
(* FoodLogger backend: the detection-to-nutrition estimation pipeline      *)
(* (backend/app/pipeline.py, backend/app/ml_model.py) and the meal log     *)
(* store with its HTTP handlers (backend/app/db.py, backend/app/main.py).  *)
(*                                                                         *)
(* Units.  Every quantity the code rounds to one decimal is held as an     *)
(* integer number of tenths (55.0 kcal is 550, 3.7 g is 37).  Per-100 g    *)
(* reference values are in tenths as well, densities in hundredths of      *)
(* g/ml, typical_serving_g in grams, confidences in thousandths.           *)
(*                                                                         *)
(* Strings.  A label the code inspects character by character is a         *)
(* sequence of one-character strings; StringTable gives the characters of  *)
(* every string constant of the source and of the labels used as inputs.   *)
(***************************************************************************)
EXTENDS Integers, Sequences, FiniteSets, TLC

VARIABLES
    TRANSFORMERS_AVAILABLE, \* ml_model.py: whether `import transformers` succeeded
    _model_instance,         \* ml_model.py: the global _model_instance
    load_attempts,          \* number of FoodDetectionModel() constructions so far
    phase,                  \* Spec: "idle" between requests, "done" when a call has ended
    outcome,                \* Spec: how the last run_baseline_pipeline call ended
    result,                 \* Spec: the record it returned
    call,                   \* Spec: what happened inside the last call
    label,                  \* SpecNormalize: the argument of normalize_food_label
    code,                   \* SpecNormalize: its return value, NoCode before the call
    item,                   \* SpecItem: one item record, as a path built it
    item_path,              \* SpecItem: "live", "mock", or "none" before the item is built
    tpc,                    \* SpecThreads: each thread's position inside get_model
    tnew,                   \* SpecThreads: the instance a thread has constructed
    tret,                   \* SpecThreads: the instance get_model returned to a thread
    tcalls,                 \* SpecThreads: get_model calls a thread has started
    agg_in,                 \* SpecAggregate: the detection sequence given to the aggregation
    agg_out,                \* SpecAggregate: the record the aggregation returned
    agg_path,               \* SpecAggregate: "live", "mock", or "none" before the call
    meal_logs,              \* SpecLogs: the rows of table meal_logs, by id
    meal_items,             \* SpecLogs: the rows of table meal_items, by id
    requests                \* SpecLogs: the HTTP requests in progress, by slot

modelVars == <<TRANSFORMERS_AVAILABLE, _model_instance, load_attempts>>
pipeVars == <<phase, outcome, result, call>>
normVars == <<label, code>>
itemVars == <<item, item_path>>
threadVars == <<tpc, tnew, tret, tcalls>>
aggVars == <<agg_in, agg_out, agg_path>>
logVars == <<meal_logs, meal_items, requests>>
vars == <<modelVars, pipeVars, normVars, itemVars, threadVars, aggVars, logVars>>

---------------------------------------------------------------------------
(* Characters and strings                                                  *)

LowerAlpha == <<"a","b","c","d","e","f","g","h","i","j","k","l","m",
                "n","o","p","q","r","s","t","u","v","w","x","y","z">>
UpperAlpha == <<"A","B","C","D","E","F","G","H","I","J","K","L","M",
                "N","O","P","Q","R","S","T","U","V","W","X","Y","Z">>

IsUpper(c) == \E i \in 1..26 : UpperAlpha[i] = c
IsLower(c) == \E i \in 1..26 : LowerAlpha[i] = c
IsLetter(c) == IsUpper(c) \/ IsLower(c)

\* str.lower() on one character
LowerChar(c) == IF IsUpper(c) THEN LowerAlpha[CHOOSE i \in 1..26 : UpperAlpha[i] = c] ELSE c
\* str.upper() on one character
UpperChar(c) == IF IsLower(c) THEN UpperAlpha[CHOOSE i \in 1..26 : LowerAlpha[i] = c] ELSE c

\* str.lower()
Lower(s) == [i \in 1..Len(s) |-> LowerChar(s[i])]
\* str.replace('_', ' ')
ReplaceUnderscore(s) == [i \in 1..Len(s) |-> IF s[i] = "_" THEN " " ELSE s[i]]
\* str.title(): a letter that follows a non-letter (or starts the string) is
\* upper-cased, every other letter is lower-cased
Title(s) ==
    [i \in 1..Len(s) |->
        IF i = 1 \/ ~IsLetter(s[i-1]) THEN UpperChar(s[i]) ELSE LowerChar(s[i])]
\* Python's `sub in s`
Contains(sub, s) ==
    \E i \in 1..(Len(s) - Len(sub) + 1) : SubSeq(s, i, i + Len(sub) - 1) = sub

StringTable ==
       "grilled_chicken" :> <<"g", "r", "i", "l", "l", "e", "d", "_", "c", "h", "i", "c", "k", "e", "n">>
    @@ "chicken_breast" :> <<"c", "h", "i", "c", "k", "e", "n", "_", "b", "r", "e", "a", "s", "t">>
    @@ "salmon" :> <<"s", "a", "l", "m", "o", "n">>
    @@ "steak" :> <<"s", "t", "e", "a", "k">>
    @@ "rice" :> <<"r", "i", "c", "e">>
    @@ "pasta" :> <<"p", "a", "s", "t", "a">>
    @@ "bread" :> <<"b", "r", "e", "a", "d">>
    @@ "potato" :> <<"p", "o", "t", "a", "t", "o">>
    @@ "broccoli" :> <<"b", "r", "o", "c", "c", "o", "l", "i">>
    @@ "salad" :> <<"s", "a", "l", "a", "d">>
    @@ "carrots" :> <<"c", "a", "r", "r", "o", "t", "s">>
    @@ "default" :> <<"d", "e", "f", "a", "u", "l", "t">>
    @@ "chicken" :> <<"c", "h", "i", "c", "k", "e", "n">>
    @@ "fish" :> <<"f", "i", "s", "h">>
    @@ "beef" :> <<"b", "e", "e", "f">>
    @@ "spaghetti" :> <<"s", "p", "a", "g", "h", "e", "t", "t", "i">>
    @@ "toast" :> <<"t", "o", "a", "s", "t">>
    @@ "fries" :> <<"f", "r", "i", "e", "s">>
    @@ "lettuce" :> <<"l", "e", "t", "t", "u", "c", "e">>
    @@ "carrot" :> <<"c", "a", "r", "r", "o", "t">>
    @@ "Grilled Chicken" :> <<"G", "r", "i", "l", "l", "e", "d", " ", "C", "h", "i", "c", "k", "e", "n">>
    @@ "Rice" :> <<"R", "i", "c", "e">>
    @@ "Broccoli" :> <<"B", "r", "o", "c", "c", "o", "l", "i">>
    @@ "Salad" :> <<"S", "a", "l", "a", "d">>
    @@ "Pasta" :> <<"P", "a", "s", "t", "a">>
    @@ "Salmon" :> <<"S", "a", "l", "m", "o", "n">>
    @@ "grilled_chicken_breast" :> <<"g", "r", "i", "l", "l", "e", "d", "_", "c", "h", "i", "c", "k", "e", "n", "_", "b", "r", "e", "a", "s", "t">>
    @@ "steamed_rice" :> <<"s", "t", "e", "a", "m", "e", "d", "_", "r", "i", "c", "e">>
    @@ "mixed_salad" :> <<"m", "i", "x", "e", "d", "_", "s", "a", "l", "a", "d">>
    @@ "Grilled chicken breast" :> <<"G", "r", "i", "l", "l", "e", "d", " ", "c", "h", "i", "c", "k", "e", "n", " ", "b", "r", "e", "a", "s", "t">>
    @@ "Steamed rice" :> <<"S", "t", "e", "a", "m", "e", "d", " ", "r", "i", "c", "e">>
    @@ "Mixed salad" :> <<"M", "i", "x", "e", "d", " ", "s", "a", "l", "a", "d">>
    @@ "" :> <<>>
    @@ "xyzzy_unknown_food" :> <<"x", "y", "z", "z", "y", "_", "u", "n", "k", "n", "o", "w", "n", "_", "f", "o", "o", "d">>
    @@ "chicken_salad" :> <<"c", "h", "i", "c", "k", "e", "n", "_", "s", "a", "l", "a", "d">>
    @@ "fish_and_rice" :> <<"f", "i", "s", "h", "_", "a", "n", "d", "_", "r", "i", "c", "e">>
    @@ "chicken_wings" :> <<"c", "h", "i", "c", "k", "e", "n", "_", "w", "i", "n", "g", "s">>
    @@ "Chicken Wings" :> <<"C", "h", "i", "c", "k", "e", "n", " ", "W", "i", "n", "g", "s">>
    @@ "fried_rice" :> <<"f", "r", "i", "e", "d", "_", "r", "i", "c", "e">>
    @@ "Fried Rice" :> <<"F", "r", "i", "e", "d", " ", "R", "i", "c", "e">>
    @@ "caesar_salad" :> <<"c", "a", "e", "s", "a", "r", "_", "s", "a", "l", "a", "d">>
    @@ "Caesar Salad" :> <<"C", "a", "e", "s", "a", "r", " ", "S", "a", "l", "a", "d">>
    @@ "pizza" :> <<"p", "i", "z", "z", "a">>
    @@ "Pizza" :> <<"P", "i", "z", "z", "a">>
    @@ "carrot_cake" :> <<"c", "a", "r", "r", "o", "t", "_", "c", "a", "k", "e">>
    @@ "Carrot Cake" :> <<"C", "a", "r", "r", "o", "t", " ", "C", "a", "k", "e">>
    @@ "french_fries" :> <<"f", "r", "e", "n", "c", "h", "_", "f", "r", "i", "e", "s">>
    @@ "garlic_bread" :> <<"g", "a", "r", "l", "i", "c", "_", "b", "r", "e", "a", "d">>
    @@ "french_toast" :> <<"f", "r", "e", "n", "c", "h", "_", "t", "o", "a", "s", "t">>
    @@ "spaghetti_bolognese" :> <<"s", "p", "a", "g", "h", "e", "t", "t", "i", "_", "b", "o", "l", "o", "g", "n", "e", "s", "e">>
    @@ "beef_tartare" :> <<"b", "e", "e", "f", "_", "t", "a", "r", "t", "a", "r", "e">>
    @@ "fish_and_chips" :> <<"f", "i", "s", "h", "_", "a", "n", "d", "_", "c", "h", "i", "p", "s">>
    @@ "grilled_salmon" :> <<"g", "r", "i", "l", "l", "e", "d", "_", "s", "a", "l", "m", "o", "n">>
    @@ "baked_potato" :> <<"b", "a", "k", "e", "d", "_", "p", "o", "t", "a", "t", "o">>
    @@ "lettuce_wrap" :> <<"l", "e", "t", "t", "u", "c", "e", "_", "w", "r", "a", "p">>
    @@ "Xyzzy Unknown Food" :> <<"X", "y", "z", "z", "y", " ", "U", "n", "k", "n", "o", "w", "n", " ", "F", "o", "o", "d">>
    @@ "pasta_salad" :> <<"p", "a", "s", "t", "a", "_", "s", "a", "l", "a", "d">>
    @@ "carrot_salad" :> <<"c", "a", "r", "r", "o", "t", "_", "s", "a", "l", "a", "d">>
    @@ "steak_and_fries" :> <<"s", "t", "e", "a", "k", "_", "a", "n", "d", "_", "f", "r", "i", "e", "s">>
    @@ "rice_and_beef" :> <<"r", "i", "c", "e", "_", "a", "n", "d", "_", "b", "e", "e", "f">>
    @@ "broccoli_toast" :> <<"b", "r", "o", "c", "c", "o", "l", "i", "_", "t", "o", "a", "s", "t">>

TableStrings == DOMAIN StringTable
Chars(s) == StringTable[s]
\* the string constant whose characters are cs
Str(cs) == CHOOSE s \in TableStrings : StringTable[s] = cs

---------------------------------------------------------------------------
(* ml_model.py: the nutrition reference table                              *)

NutritionRecord(cal, protein, carbs, fat, density, serving) ==
    [calories_per_100g |-> cal, protein_per_100g |-> protein,
     carbs_per_100g |-> carbs, fat_per_100g |-> fat,
     density_g_per_ml |-> density, typical_serving_g |-> serving]

NUTRITION_DATABASE ==
       "grilled_chicken" :> NutritionRecord(1650, 310,   0,  36, 105, 150)
    @@ "chicken_breast"  :> NutritionRecord(1650, 310,   0,  36, 105, 150)
    @@ "salmon"          :> NutritionRecord(2080, 200,   0, 130, 105, 120)
    @@ "steak"           :> NutritionRecord(2710, 250,   0, 190, 105, 200)
    @@ "rice"            :> NutritionRecord(1300,  27, 280,   3,  85, 150)
    @@ "pasta"           :> NutritionRecord(1310,  50, 250,  11,  90, 180)
    @@ "bread"           :> NutritionRecord(2650,  90, 490,  32,  40,  60)
    @@ "potato"          :> NutritionRecord( 770,  20, 170,   1, 110, 150)
    @@ "broccoli"        :> NutritionRecord( 550,  37,  70,   4,  60, 100)
    @@ "salad"           :> NutritionRecord( 350,  15,  30,   2,  30, 100)
    @@ "carrots"         :> NutritionRecord( 410,   9, 100,   2,  60,  80)
    @@ "default"         :> NutritionRecord(1500, 100, 150,  50, 100, 100)

DbKeys == DOMAIN NUTRITION_DATABASE

---------------------------------------------------------------------------
(* ml_model.py: normalize_food_label                                       *)

\* the ordered `if ... in label_lower: return ...` chain of lines 255-274
KeywordRules_CarrotTypo ==
    << [keywords |-> {"chicken"},            code |-> "grilled_chicken"],
       [keywords |-> {"salmon", "fish"},     code |-> "salmon"],
       [keywords |-> {"beef", "steak"},      code |-> "steak"],
       [keywords |-> {"rice"},               code |-> "rice"],
       [keywords |-> {"pasta", "spaghetti"}, code |-> "pasta"],
       [keywords |-> {"bread", "toast"},     code |-> "bread"],
       [keywords |-> {"potato", "fries"},    code |-> "potato"],
       [keywords |-> {"broccoli"},           code |-> "broccoli"],
       [keywords |-> {"salad", "lettuce"},   code |-> "salad"],
       [keywords |-> {"carrot"},             code |-> "carrot"] >>

\* the salad rule moved to the head of the chain
KeywordRules_SaladFirst ==
    << [keywords |-> {"salad", "lettuce"},   code |-> "salad"],
       [keywords |-> {"chicken"},            code |-> "grilled_chicken"],
       [keywords |-> {"salmon", "fish"},     code |-> "salmon"],
       [keywords |-> {"beef", "steak"},      code |-> "steak"],
       [keywords |-> {"rice"},               code |-> "rice"],
       [keywords |-> {"pasta", "spaghetti"}, code |-> "pasta"],
       [keywords |-> {"bread", "toast"},     code |-> "bread"],
       [keywords |-> {"potato", "fries"},    code |-> "potato"],
       [keywords |-> {"broccoli"},           code |-> "broccoli"],
       [keywords |-> {"carrot"},             code |-> "carrots"] >>

KeywordRules ==
    << [keywords |-> {"chicken"},            code |-> "grilled_chicken"],
       [keywords |-> {"salmon", "fish"},     code |-> "salmon"],
       [keywords |-> {"beef", "steak"},      code |-> "steak"],
       [keywords |-> {"rice"},               code |-> "rice"],
       [keywords |-> {"pasta", "spaghetti"}, code |-> "pasta"],
       [keywords |-> {"bread", "toast"},     code |-> "bread"],
       [keywords |-> {"potato", "fries"},    code |-> "potato"],
       [keywords |-> {"broccoli"},           code |-> "broccoli"],
       [keywords |-> {"salad", "lettuce"},   code |-> "salad"],
       [keywords |-> {"carrot"},             code |-> "carrots"] >>

RuleMatches(rule, label_lower) ==
    \E kw \in rule.keywords : Contains(Chars(kw), label_lower)

\* `label_lower in NUTRITION_DATABASE`
DirectMatch(label_lower) == \E k \in DbKeys : Chars(k) = label_lower

RECURSIVE FuzzyMatch(_, _)
FuzzyMatch(label_lower, i) ==
    IF i > Len(KeywordRules) THEN "default"
    ELSE IF RuleMatches(KeywordRules[i], label_lower) THEN KeywordRules[i].code
    ELSE FuzzyMatch(label_lower, i + 1)

\* `return 'unknown'` as the last line
normalize_food_label_Unknown(lbl) ==
    LET label_lower == ReplaceUnderscore(Lower(lbl))
        fuzzy == FuzzyMatch(label_lower, 1)
    IN  IF DirectMatch(label_lower) THEN Str(label_lower)
        ELSE IF fuzzy = "default" THEN "unknown" ELSE fuzzy

normalize_food_label(lbl) ==
    LET label_lower == ReplaceUnderscore(Lower(lbl))
    IN  IF DirectMatch(label_lower) THEN Str(label_lower)
        ELSE FuzzyMatch(label_lower, 1)

---------------------------------------------------------------------------
(* Arithmetic                                                              *)

\* round(x, 1) where x is num/den tenths (num >= 0, den > 0): the nearest
\* tenth.  The code rounds a binary float, so when x lies exactly halfway
\* between two tenths the float's error decides the direction: both
\* neighbours are outcomes.
Round1(num, den) ==
    LET fl == num \div den
        r  == num % den
    IN  IF 2 * r < den THEN {fl}
        ELSE IF 2 * r > den THEN {fl + 1}
        ELSE {fl, fl + 1}

\* round(confidence, 2), confidence in thousandths, result in hundredths
Round2(thousandths) == Round1(thousandths, 10)

JitterSteps == 1

\* random.uniform(0.8, 1.2) * base_serving, rounded to a tenth: every tenth
\* of [0.8 * base, 1.2 * base] is an outcome
ServingRange(base_serving) == (8 * base_serving)..(12 * base_serving)
\* the outcomes the pipeline specification draws from: the ends of the
\* range and JitterSteps - 1 points evenly spaced between them
ServingSamples(base_serving) ==
    {8 * base_serving + (k * 4 * base_serving) \div JitterSteps : k \in 0..JitterSteps}

\* uniform(-0.1, 0.1) in place of uniform(0.9, 1.1)
VolumeRange_Signed(v) == (0 - v)..v

\* random.uniform(0.9, 1.1) * v, rounded to a tenth
VolumeRange(v) == (9 * v)..(11 * v)
VolumeSamples(v) ==
    {9 * v + (k * 2 * v) \div JitterSteps : k \in 0..JitterSteps}

---------------------------------------------------------------------------
(* ml_model.py: estimate_nutrition                                         *)

\* a detection as detect_food_items builds it (lines 94-98)
Detection(lbl, display_name, confidence) ==
    [label |-> lbl, display_name |-> display_name, confidence |-> confidence]

\* a detection estimate_nutrition cannot read: `detection['label']` raises
IsWellFormed(detection) ==
    {"label", "display_name", "confidence"} \subseteq DOMAIN detection

\* NUTRITION_DATABASE.get(normalized_label, NUTRITION_DATABASE['default'])
NutritionFor(normalized_label) ==
    IF normalized_label \in DbKeys THEN NUTRITION_DATABASE[normalized_label]
    ELSE NUTRITION_DATABASE["default"]

\* lines 309-313 with fat scaled from the carbs column
NutrientValues_FatFromCarbs(nutrition, serving_g) ==
    {[calories |-> c, protein |-> p, carbs |-> cb, fat |-> f] :
        c  \in Round1(nutrition.calories_per_100g * serving_g, 1000),
        p  \in Round1(nutrition.protein_per_100g * serving_g, 1000),
        cb \in Round1(nutrition.carbs_per_100g * serving_g, 1000),
        f  \in Round1(nutrition.carbs_per_100g * serving_g, 1000)}

\* lines 309-313: factor = serving_g / 100.0, each nutrient rounded on its own
NutrientValues(nutrition, serving_g) ==
    {[calories |-> c, protein |-> p, carbs |-> cb, fat |-> f] :
        c  \in Round1(nutrition.calories_per_100g * serving_g, 1000),
        p  \in Round1(nutrition.protein_per_100g * serving_g, 1000),
        cb \in Round1(nutrition.carbs_per_100g * serving_g, 1000),
        f  \in Round1(nutrition.fat_per_100g * serving_g, 1000)}

\* the items one pass of the loop body (lines 296-333) can append for a
\* detection, once the jittered serving_g is drawn
LiveItems(detection, serving_g) ==
    LET normalized_label == normalize_food_label(Chars(detection.label))
        nutrition == NutritionFor(normalized_label)
    IN  {[name |-> detection.display_name,
          code |-> normalized_label,
          estimated_volume_ml |-> volume_ml,
          estimated_weight_g |-> serving_g,
          estimated_calories_kcal |-> n.calories,
          estimated_protein_g |-> n.protein,
          estimated_carbs_g |-> n.carbs,
          estimated_fat_g |-> n.fat,
          confidence |-> conf] :
            n \in NutrientValues(nutrition, serving_g),
            volume_ml \in Round1(serving_g * 100, nutrition.density_g_per_ml),
            conf \in Round2(detection.confidence)}

\* typical_serving_g of the detection's resolved code (line 305)
BaseServing(detection) ==
    NutritionFor(normalize_food_label(Chars(detection.label))).typical_serving_g

\* `total = value` instead of `total += value`
AddToTotal_Overwrite(total, value) == value

\* `total_calories += calories` (lines 318-321; pipeline.py 216-219)
AddToTotal(total, value) == total + value

\* the running state of either aggregation loop
EmptyTotals ==
    [items |-> <<>>, total_calories |-> 0, total_protein |-> 0,
     total_carbs |-> 0, total_fat |-> 0]

\* `items.insert(0, item)` instead of `items.append(item)`
Accumulate_Prepend(acc, it) ==
    [items |-> <<it>> \o acc.items,
     total_calories |-> AddToTotal(acc.total_calories, it.estimated_calories_kcal),
     total_protein  |-> AddToTotal(acc.total_protein, it.estimated_protein_g),
     total_carbs    |-> AddToTotal(acc.total_carbs, it.estimated_carbs_g),
     total_fat      |-> AddToTotal(acc.total_fat, it.estimated_fat_g)]

Accumulate(acc, it) ==
    [items |-> Append(acc.items, it),
     total_calories |-> AddToTotal(acc.total_calories, it.estimated_calories_kcal),
     total_protein  |-> AddToTotal(acc.total_protein, it.estimated_protein_g),
     total_carbs    |-> AddToTotal(acc.total_carbs, it.estimated_carbs_g),
     total_fat      |-> AddToTotal(acc.total_fat, it.estimated_fat_g)]

\* the returned record (lines 335-341; pipeline.py 235-240): each total is
\* round(total, 1) of a sum of tenths
Totals(acc) ==
    {[items |-> acc.items,
      total_calories_kcal |-> tc, total_protein_g |-> tp,
      total_carbs_g |-> tcb, total_fat_g |-> tf] :
        tc  \in Round1(acc.total_calories, 1),
        tp  \in Round1(acc.total_protein, 1),
        tcb \in Round1(acc.total_carbs, 1),
        tf  \in Round1(acc.total_fat, 1)}

RECURSIVE EstimateLoop(_, _, _)
EstimateLoop(detected_items, i, acc) ==
    IF i > Len(detected_items) THEN {acc}
    ELSE UNION {UNION {EstimateLoop(detected_items, i + 1, Accumulate(acc, it)) :
                        it \in LiveItems(detected_items[i], serving_g)} :
                 serving_g \in ServingSamples(BaseServing(detected_items[i]))}

\* every record estimate_nutrition can return; the empty set when it raises
\* (a detection without the keys it reads)
estimate_nutrition(detected_items) ==
    IF \E i \in 1..Len(detected_items) : ~IsWellFormed(detected_items[i])
    THEN {}
    ELSE UNION {Totals(acc) : acc \in EstimateLoop(detected_items, 1, EmptyTotals)}

---------------------------------------------------------------------------
(* pipeline.py: the mock stages and run_fallback_pipeline                  *)

DENSITY_TABLE_G_PER_ML ==
       "grilled_chicken_breast" :> 105 @@ "steamed_rice" :> 85
    @@ "broccoli" :> 60 @@ "mixed_salad" :> 30

CALORIE_TABLE_KCAL_PER_100G ==
       "grilled_chicken_breast" :> 1650 @@ "steamed_rice" :> 1300
    @@ "broccoli" :> 550 @@ "mixed_salad" :> 350

DISPLAY_NAMES ==
       "grilled_chicken_breast" :> "Grilled chicken breast"
    @@ "steamed_rice" :> "Steamed rice"
    @@ "broccoli" :> "Broccoli"
    @@ "mixed_salad" :> "Mixed salad"

MACROS_TABLE_PER_100G ==
       "grilled_chicken_breast" :> [protein |-> 310, carbs |-> 0, fat |-> 36]
    @@ "steamed_rice" :> [protein |-> 27, carbs |-> 280, fat |-> 3]
    @@ "broccoli" :> [protein |-> 37, carbs |-> 70, fat |-> 4]
    @@ "mixed_salad" :> [protein |-> 15, carbs |-> 30, fat |-> 2]

\* dict.get(key, default)
Get(dict, key, default) == IF key \in DOMAIN dict THEN dict[key] ELSE default

FoodItemDetection(lbl, confidence) == [label |-> lbl, confidence |-> confidence]

\* random.choices(candidates, k=n): sampling with replacement
ShuffledPrefixes_WithReplacement(candidates, counts) ==
    UNION {[1..n -> candidates] : n \in counts}

\* candidates[:n] after random.shuffle(candidates): every sequence of n
\* distinct candidates, n being one of counts
ShuffledPrefixes(candidates, counts) ==
    {s \in UNION {[1..n -> candidates] : n \in counts} :
        \A i, j \in DOMAIN s : i # j => s[i] # s[j]}

\* random.randint(1, 3)
MockCounts_FromOne == {1, 2, 3}

\* random.randint(2, 3) (line 76; ml_model.py line 120)
MockCounts == {2, 3}

mock_detect_food_items ==
    ShuffledPrefixes({FoodItemDetection("grilled_chicken_breast", 780),
                      FoodItemDetection("steamed_rice", 720),
                      FoodItemDetection("broccoli", 680),
                      FoodItemDetection("mixed_salad", 650)}, MockCounts)

\* every dict over the keys of choices whose value at k is in choices[k]
RECURSIVE ProductDicts(_)
ProductDicts(choices) ==
    IF DOMAIN choices = {} THEN {<<>>}
    ELSE LET k == CHOOSE x \in DOMAIN choices : TRUE
             rest == [x \in DOMAIN choices \ {k} |-> choices[x]]
         IN  UNION {{(k :> v) @@ f : f \in ProductDicts(rest)} : v \in choices[k]}

base_volumes ==
       "grilled_chicken_breast" :> 120 @@ "steamed_rice" :> 180
    @@ "broccoli" :> 90 @@ "mixed_salad" :> 150

\* base_volumes.get(d.label, 100.0)
BaseVolume(lbl) == Get(base_volumes, lbl, 100)

\* the dict is keyed by label: a later detection of a label overwrites the
\* earlier one's volume
estimate_volumes_ml(detections) ==
    ProductDicts([l \in {detections[i].label : i \in DOMAIN detections} |->
                    VolumeSamples(BaseVolume(l))])

\* `volume / density` instead of `volume * density`
convert_volume_to_weight_g_Divide(volumes_ml) ==
    ProductDicts([l \in DOMAIN volumes_ml |->
                    Round1(volumes_ml[l] * 100, Get(DENSITY_TABLE_G_PER_ML, l, 100))])

convert_volume_to_weight_g(volumes_ml) ==
    ProductDicts([l \in DOMAIN volumes_ml |->
                    Round1(volumes_ml[l] * Get(DENSITY_TABLE_G_PER_ML, l, 100), 100)])

compute_calories_kcal(weights_g) ==
    ProductDicts([l \in DOMAIN weights_g |->
                    Round1(weights_g[l] * Get(CALORIE_TABLE_KCAL_PER_100G, l, 1000), 1000)])

compute_macros_grams(weights_g) ==
    ProductDicts([l \in DOMAIN weights_g |->
        LET per100 == Get(MACROS_TABLE_PER_100G, l,
                          [protein |-> 50, carbs |-> 100, fat |-> 20])
        IN  {[protein_g |-> p, carbs_g |-> c, fat_g |-> f] :
                p \in Round1(per100.protein * weights_g[l], 1000),
                c \in Round1(per100.carbs * weights_g[l], 1000),
                f \in Round1(per100.fat * weights_g[l], 1000)}])

\* the loop of lines 210-233
RECURSIVE FallbackLoop(_, _, _, _, _, _, _)
FallbackLoop(detections, volumes, weights, calories, macros, i, acc) ==
    IF i > Len(detections) THEN {acc}
    ELSE LET det == detections[i]
             macro == macros[det.label]
         IN  UNION {FallbackLoop(detections, volumes, weights, calories, macros, i + 1,
                        Accumulate(acc,
                            [name |-> Get(DISPLAY_NAMES, det.label, det.label),
                             code |-> det.label,
                             estimated_volume_ml |-> volumes[det.label],
                             estimated_weight_g |-> weights[det.label],
                             estimated_calories_kcal |-> calories[det.label],
                             estimated_protein_g |-> macro.protein_g,
                             estimated_carbs_g |-> macro.carbs_g,
                             estimated_fat_g |-> macro.fat_g,
                             confidence |-> conf])) :
                    conf \in Round2(det.confidence)}

FALLBACK_VERSION == "fallback-mock-0.1"
ML_VERSION == "ml-powered-1.0"

\* lines 200-246, from the detections and the volumes drawn for them
FallbackFrom(detections, volumes, filename) ==
    UNION {UNION {UNION {
        {[items |-> t.items,
          total_calories_kcal |-> t.total_calories_kcal,
          total_protein_g |-> t.total_protein_g,
          total_carbs_g |-> t.total_carbs_g,
          total_fat_g |-> t.total_fat_g,
          pipeline |-> [version |-> FALLBACK_VERSION,
                        notes |-> "Fallback mock pipeline - ML model not available."],
          source |-> [filename |-> filename]] :
            t \in UNION {Totals(acc) :
                    acc \in FallbackLoop(detections, volumes, weights, calories,
                                         macros, 1, EmptyTotals)}} :
        macros \in compute_macros_grams(weights)} :
        calories \in compute_calories_kcal(weights)} :
        weights \in convert_volume_to_weight_g(volumes)}

run_fallback_pipeline(filename) ==
    UNION {UNION {FallbackFrom(detections, volumes, filename) :
                    volumes \in estimate_volumes_ml(detections)} :
           detections \in mock_detect_food_items}

---------------------------------------------------------------------------
(* ml_model.py: FoodDetectionModel and get_model                           *)

\* Python's None for _model_instance
None == [id |-> 0, model |-> "none"]

\* FoodDetectionModel(): __init__ sets model = None and _initialize_model
\* replaces it only when transformers was imported and pipeline(...) did
\* not raise (load_ok); id tells the constructed objects apart
FoodDetectionModel(id, load_ok) ==
    [id |-> id,
     model |-> IF TRANSFORMERS_AVAILABLE /\ load_ok THEN "pipeline" ELSE "none"]

_fallback_detection ==
    ShuffledPrefixes({Detection("grilled_chicken", "Grilled Chicken", 870),
                      Detection("rice", "Rice", 820),
                      Detection("broccoli", "Broccoli", 780),
                      Detection("salad", "Salad", 750),
                      Detection("pasta", "Pasta", 730),
                      Detection("salmon", "Salmon", 710)}, MockCounts)

TOP_K == 3

\* what self.model(image, top_k=top_k) can return: up to top_k predictions
PredictionPool ==
    {[label |-> "chicken_wings", score |-> 912],
     [label |-> "fried_rice", score |-> 61],
     [label |-> "pizza", score |-> 27]}
Predictions == UNION {[1..n -> PredictionPool] : n \in 0..TOP_K}

\* what can happen inside the try block of detect_food_items (lines 72-100):
\* Image.open raises, the model raises, or the model returns predictions
InferenceBehaviours ==
    {[kind |-> "decode_error", predictions |-> <<>>],
     [kind |-> "inference_error", predictions |-> <<>>]}
        \cup {[kind |-> "predictions", predictions |-> ps] : ps \in Predictions}

\* lines 86-98
FromPredictions(predictions) ==
    [i \in DOMAIN predictions |->
        Detection(predictions[i].label,
                  Str(Title(ReplaceUnderscore(Chars(predictions[i].label)))),
                  predictions[i].score)]

\* every way a detect_food_items call on `self` can end: it never raises,
\* every exception of the try block is caught at line 102.  `inner` records
\* which branch produced the list.
detect_food_items(self) ==
    IF self.model = "none"
    THEN {[raised |-> FALSE, inner |-> "model_none", items |-> ds] :
            ds \in _fallback_detection}
    ELSE UNION {
        IF b.kind = "predictions"
        THEN {[raised |-> FALSE, inner |-> "predictions",
               items |-> FromPredictions(b.predictions)]}
        ELSE {[raised |-> FALSE, inner |-> b.kind, items |-> ds] :
                ds \in _fallback_detection} :
        b \in InferenceBehaviours}

---------------------------------------------------------------------------
(* pipeline.py: run_baseline_pipeline                                      *)

NoResult == [none |-> TRUE]

Returned(r) == [raised |-> FALSE, value |-> r]
Raised == [raised |-> TRUE, value |-> NoResult]

\* the result dict of lines 163-181
MLResult(nutrition_result, filename) ==
    [items |-> nutrition_result.items,
     total_calories_kcal |-> nutrition_result.total_calories_kcal,
     total_protein_g |-> nutrition_result.total_protein_g,
     total_carbs_g |-> nutrition_result.total_carbs_g,
     total_fat_g |-> nutrition_result.total_fat_g,
     pipeline |-> [version |-> ML_VERSION,
                   model |-> "nateraw/food (Food101)",
                   notes |-> "Real ML-based food recognition using Vision Transformer trained on Food101 dataset.",
                   capabilities |->
                       [food_detection |-> "Pre-trained on 101 food categories",
                        confidence_scoring |-> "Model provides confidence scores for predictions",
                        multi_item_detection |-> "Can detect multiple food items in a single image"],
                   assumptions |->
                       [serving_size |-> "Estimated based on typical portions for detected foods",
                        nutrition_database |-> "Uses USDA nutritional data for common foods",
                        visible_only |-> "Only visually detectable ingredients considered"]],
     source |-> [filename |-> filename]]

\* an except clause that logs and re-raises
OnException_Reraise(filename) == {Raised}

\* the except clause (lines 186-190)
OnException(filename) == {Returned(r) : r \in run_fallback_pipeline(filename)}

\* every way the call can end once get_model and detect_food_items have
\* ended as `detect` says (detect.raised: one of them raised)
run_baseline_pipeline(detect, filename) ==
    IF detect.raised THEN OnException(filename)
    ELSE IF estimate_nutrition(detect.items) = {} THEN OnException(filename)
    ELSE {Returned(MLResult(n, filename)) : n \in estimate_nutrition(detect.items)}

---------------------------------------------------------------------------
(* The state each specification leaves untouched                           *)

NoCall ==
    [capability |-> "none", inner |-> "none", model_loaded |-> FALSE,
     constructed |-> FALSE,
     detect_raised |-> FALSE, detections |-> 0, detect_calls |-> 0]
NoCode == "<none>"
NoItem == [none |-> TRUE]
NThreads == 2
Threads == 1..NThreads

ModelInit ==
    /\ TRANSFORMERS_AVAILABLE \in BOOLEAN
    /\ _model_instance = None
    /\ load_attempts = 0
PipeIdle ==
    /\ phase = "idle"
    /\ outcome = "none"
    /\ result = NoResult
    /\ call = NoCall
NormIdle ==
    /\ label = <<>>
    /\ code = NoCode
ItemIdle ==
    /\ item = NoItem
    /\ item_path = "none"
ThreadsIdle ==
    /\ tpc = [t \in Threads |-> "idle"]
    /\ tnew = [t \in Threads |-> None]
    /\ tret = [t \in Threads |-> None]
    /\ tcalls = [t \in Threads |-> 0]

---------------------------------------------------------------------------
(* Spec: requests served one after the other (main.py runs the pipeline    *)
(* inside an async handler, without awaiting, so calls do not interleave)  *)

AggIdle ==
    /\ agg_in = <<>>
    /\ agg_out = NoResult
    /\ agg_path = "none"

\* an HTTP request slot with no request in it
NoRequest ==
    [op |-> "none", log_id |-> 0, pc |-> "idle", response |-> [status |-> 0]]

\* the concurrent clients of the API
Requests == {"client_a", "client_b"}

LogsIdle ==
    /\ meal_logs = <<>>
    /\ meal_items = <<>>
    /\ requests = [r \in Requests |-> NoRequest]

NoFilename == "<None>"
Filenames == {"meal.jpg", NoFilename}

\* get_model constructing again when the cached instance holds no model
get_model_RetryFailedLoad(load_ok) ==
    IF _model_instance = None \/ _model_instance.model = "none"
    THEN FoodDetectionModel(load_attempts + 1, load_ok)
    ELSE _model_instance

\* get_model(), run to completion: the instance it returns
get_model(load_ok) ==
    IF _model_instance = None THEN FoodDetectionModel(load_attempts + 1, load_ok)
    ELSE _model_instance

\* a detection capability put in place of get_model, as a test double is:
\* get_model raises, detect_food_items raises, or it returns some list
StubLists ==
    {<<>>,
     <<Detection("broccoli", "Broccoli", 780)>>,
     <<Detection("xyzzy_unknown_food", "Xyzzy Unknown Food", 500)>>,
     <<[label |-> "broccoli"]>>}
StubBehaviours ==
    {[raised |-> TRUE, inner |-> "get_model_raised", items |-> <<>>],
     [raised |-> TRUE, inner |-> "detect_raised", items |-> <<>>]}
        \cup {[raised |-> FALSE, inner |-> "stub_list", items |-> l] : l \in StubLists}

\* the detect_food_items calls one pass through the try block makes (line
\* 156, reached unless get_model raised at line 153; no loop around it)
DetectCalls(detect) == IF detect.inner = "get_model_raised" THEN 0 ELSE 1

Init == ModelInit /\ PipeIdle /\ NormIdle /\ ItemIdle /\ ThreadsIdle /\ AggIdle /\ LogsIdle

\* run_baseline_pipeline(image_bytes, filename) on the repository's own
\* detection capability
RunBaselinePipeline ==
    /\ phase = "idle"
    /\ \E filename \in Filenames, load_ok \in BOOLEAN :
        LET self == get_model(load_ok)
        IN  /\ _model_instance' = self
            /\ load_attempts' =
                    IF self.id = _model_instance.id THEN load_attempts
                    ELSE load_attempts + 1
            /\ \E detect \in detect_food_items(self) :
                \E o \in run_baseline_pipeline(detect, filename) :
                    /\ outcome' = IF o.raised THEN "raised" ELSE "returned"
                    /\ result' = o.value
                    /\ call' = [capability |-> "real", inner |-> detect.inner,
                                model_loaded |-> self.model # "none",
                                constructed |-> self.id # _model_instance.id,
                                detect_raised |-> detect.raised,
                                detections |-> Len(detect.items),
                                detect_calls |-> DetectCalls(detect)]
    /\ phase' = "done"
    /\ UNCHANGED <<TRANSFORMERS_AVAILABLE, normVars, itemVars, threadVars, aggVars, logVars>>

\* run_baseline_pipeline with a stubbed detection capability
RunBaselinePipelineStubbed ==
    /\ phase = "idle"
    /\ \E filename \in Filenames, detect \in StubBehaviours :
        \E o \in run_baseline_pipeline(detect, filename) :
            /\ outcome' = IF o.raised THEN "raised" ELSE "returned"
            /\ result' = o.value
            /\ call' = [capability |-> "stub", inner |-> detect.inner,
                        model_loaded |-> FALSE,
                        constructed |-> FALSE,
                        detect_raised |-> detect.raised,
                        detections |-> Len(detect.items),
                        detect_calls |-> DetectCalls(detect)]
    /\ phase' = "done"
    /\ UNCHANGED <<modelVars, normVars, itemVars, threadVars, aggVars, logVars>>

\* the caller takes the result (main.py line 64) and the next request may start
Return ==
    /\ phase = "done"
    /\ phase' = "idle"
    /\ outcome' = "none"
    /\ result' = NoResult
    /\ call' = NoCall
    /\ UNCHANGED <<modelVars, normVars, itemVars, threadVars, aggVars, logVars>>

Next == RunBaselinePipeline \/ RunBaselinePipelineStubbed \/ Return

Spec == Init /\ [][Next]_vars

---------------------------------------------------------------------------
(* SpecNormalize: normalize_food_label applied to every label of           *)
(* InputLabels                                                             *)

MaxLabelLen == 4
Alphabet == {"r", "i", "c", "e", "_", "R"}
\* every string over Alphabet of at most MaxLabelLen characters
GeneratedLabels == UNION {[1..n -> Alphabet] : n \in 0..MaxLabelLen}
\* the display forms of a code: title-cased with the underscore kept, and as
\* detect_food_items derives display_name (line 92)
DisplayForms(c) == {Title(Chars(c)), Title(ReplaceUnderscore(Chars(c)))}
InputLabels ==
    {Chars(s) : s \in TableStrings}
        \cup UNION {DisplayForms(c) : c \in DbKeys}
        \cup GeneratedLabels

NormInit ==
    /\ ModelInit /\ PipeIdle /\ ItemIdle /\ ThreadsIdle /\ AggIdle /\ LogsIdle
    /\ label \in InputLabels
    /\ code = NoCode

NormalizeLabel ==
    /\ code = NoCode
    /\ code' = normalize_food_label(label)
    /\ UNCHANGED <<label, modelVars, pipeVars, itemVars, threadVars, aggVars, logVars>>

NormNext == NormalizeLabel

SpecNormalize == NormInit /\ [][NormNext]_vars

---------------------------------------------------------------------------
(* SpecItem: one item built by either path, over the whole jitter range    *)

ItemDetections == {Detection(s, s, 500) : s \in TableStrings}
MockCandidates == UNION {{ds[i] : i \in DOMAIN ds} : ds \in mock_detect_food_items}

ItemInit == ModelInit /\ PipeIdle /\ NormIdle /\ ItemIdle /\ ThreadsIdle /\ AggIdle /\ LogsIdle

\* the loop body of estimate_nutrition for one detection
BuildLiveItem ==
    /\ item_path = "none"
    /\ \E det \in ItemDetections :
        \E serving_g \in ServingRange(BaseServing(det)) :
            item' \in LiveItems(det, serving_g)
    /\ item_path' = "live"
    /\ UNCHANGED <<modelVars, pipeVars, normVars, threadVars, aggVars, logVars>>

\* the stages of run_fallback_pipeline for one mock detection
BuildMockItem ==
    /\ item_path = "none"
    /\ \E det \in MockCandidates :
        \E vol \in VolumeRange(BaseVolume(det.label)) :
            \E r \in FallbackFrom(<<det>>, (det.label :> vol), NoFilename) :
                item' = r.items[1]
    /\ item_path' = "mock"
    /\ UNCHANGED <<modelVars, pipeVars, normVars, threadVars, aggVars, logVars>>

ItemNext == BuildLiveItem \/ BuildMockItem

SpecItem == ItemInit /\ [][ItemNext]_vars

---------------------------------------------------------------------------
(* SpecThreads: get_model called from several threads, one bytecode-level  *)
(* step at a time (lines 130-132)                                          *)

MaxGetModelCalls == 2

ThreadsInit == ModelInit /\ PipeIdle /\ NormIdle /\ ItemIdle /\ ThreadsIdle /\ AggIdle /\ LogsIdle

\* a thread enters get_model
GmCall(t) ==
    /\ tpc[t] = "idle"
    /\ tcalls[t] < MaxGetModelCalls
    /\ tcalls' = [tcalls EXCEPT ![t] = @ + 1]
    /\ tpc' = [tpc EXCEPT ![t] = "check"]
    /\ UNCHANGED <<modelVars, tnew, tret, pipeVars, normVars, itemVars, aggVars, logVars>>

\* `if _model_instance is None:`
GmCheck(t) ==
    /\ tpc[t] = "check"
    /\ tpc' = [tpc EXCEPT ![t] = IF _model_instance = None THEN "construct" ELSE "return"]
    /\ UNCHANGED <<modelVars, tnew, tret, tcalls, pipeVars, normVars, itemVars, aggVars, logVars>>

\* `FoodDetectionModel()`: the right-hand side of line 131
GmConstruct(t) ==
    /\ tpc[t] = "construct"
    /\ \E load_ok \in BOOLEAN :
        tnew' = [tnew EXCEPT ![t] = FoodDetectionModel(load_attempts + 1, load_ok)]
    /\ load_attempts' = load_attempts + 1
    /\ tpc' = [tpc EXCEPT ![t] = "assign"]
    /\ UNCHANGED <<TRANSFORMERS_AVAILABLE, _model_instance, tret, tcalls,
                   pipeVars, normVars, itemVars, aggVars, logVars>>

\* `_model_instance = ...`: the store of line 131
GmAssign(t) ==
    /\ tpc[t] = "assign"
    /\ _model_instance' = tnew[t]
    /\ tpc' = [tpc EXCEPT ![t] = "return"]
    /\ UNCHANGED <<TRANSFORMERS_AVAILABLE, load_attempts, tnew, tret, tcalls,
                   pipeVars, normVars, itemVars, aggVars, logVars>>

\* `return _model_instance`: reads the global again
GmReturn(t) ==
    /\ tpc[t] = "return"
    /\ tret' = [tret EXCEPT ![t] = _model_instance]
    /\ tpc' = [tpc EXCEPT ![t] = "idle"]
    /\ UNCHANGED <<modelVars, tnew, tcalls, pipeVars, normVars, itemVars, aggVars, logVars>>

ThreadsNext ==
    \E t \in Threads :
        GmCall(t) \/ GmCheck(t) \/ GmConstruct(t) \/ GmAssign(t) \/ GmReturn(t)

SpecThreads == ThreadsInit /\ [][ThreadsNext]_vars

---------------------------------------------------------------------------
(* SpecAggregate: one call of an aggregation loop on a detection sequence  *)

MaxDetections == 3

\* detections as detect_food_items builds them; "rice" and "fried_rice"
\* normalize to the same code
AggPool ==
    {Detection("rice", "Rice", 820),
     Detection("fried_rice", "Fried Rice", 612),
     Detection("pasta", "Pasta", 730)}
AggLiveInputs == UNION {[1..n -> AggPool] : n \in 0..MaxDetections}

AggInit ==
    ModelInit /\ PipeIdle /\ NormIdle /\ ItemIdle /\ ThreadsIdle /\ AggIdle /\ LogsIdle

\* estimate_nutrition(detected_items)
AggregateLive ==
    /\ agg_path = "none"
    /\ \E detected_items \in AggLiveInputs :
        /\ agg_in' = detected_items
        /\ agg_out' \in estimate_nutrition(detected_items)
    /\ agg_path' = "live"
    /\ UNCHANGED <<modelVars, pipeVars, normVars, itemVars, threadVars, logVars>>

\* run_fallback_pipeline from the detections mock_detect_food_items returned
AggregateMock ==
    /\ agg_path = "none"
    /\ \E detections \in mock_detect_food_items :
        \E volumes \in estimate_volumes_ml(detections) :
            /\ agg_in' = detections
            /\ agg_out' \in FallbackFrom(detections, volumes, NoFilename)
    /\ agg_path' = "mock"
    /\ UNCHANGED <<modelVars, pipeVars, normVars, itemVars, threadVars, logVars>>

AggNext == AggregateLive \/ AggregateMock

SpecAggregate == AggInit /\ [][AggNext]_vars

---------------------------------------------------------------------------
(* db.py: tables meal_logs and meal_items.  A database is a record of the  *)
(* two tables, each a function from row id to row.  Each db.py function    *)
(* opens its own Session and commits once: it is one atomic step.          *)

\* INTEGER PRIMARY KEY of SQLite: one more than the largest id in the table
NextId(rows) ==
    IF DOMAIN rows = {} THEN 1
    ELSE (CHOOSE m \in DOMAIN rows : \A x \in DOMAIN rows : x <= m) + 1

\* the values of ids, smallest first
RECURSIVE SortedIds(_)
SortedIds(ids) ==
    IF ids = {} THEN <<>>
    ELSE LET m == CHOOSE x \in ids : \A y \in ids : x <= y
         IN  <<m>> \o SortedIds(ids \ {m})

\* MealItem(...) of lines 83-91
MealItem(log_id, item_data) ==
    [meal_id |-> log_id,
     label |-> Get(item_data, "name", Get(item_data, "label", "Unknown")),
     weight_g |-> Get(item_data, "estimated_weight_g", 0),
     calories_kcal |-> Get(item_data, "estimated_calories_kcal", 0),
     protein_g |-> Get(item_data, "estimated_protein_g", 0),
     carbs_g |-> Get(item_data, "estimated_carbs_g", 0),
     fat_g |-> Get(item_data, "estimated_fat_g", 0)]

\* the database after the commit, and the id returned
create_meal_log_from_result(db, res, filename, now) ==
    LET log_id == NextId(db.meal_logs)
        first == NextId(db.meal_items)
        items == Get(res, "items", <<>>)
        log == [created_at |-> now,
                total_calories_kcal |-> Get(res, "total_calories_kcal", 0),
                total_protein_g |-> Get(res, "total_protein_g", 0),
                total_carbs_g |-> Get(res, "total_carbs_g", 0),
                total_fat_g |-> Get(res, "total_fat_g", 0),
                source_filename |-> filename]
    IN  [db |-> [meal_logs |->
                    [i \in DOMAIN db.meal_logs \cup {log_id} |->
                        IF i = log_id THEN log ELSE db.meal_logs[i]],
                 meal_items |->
                    [i \in DOMAIN db.meal_items \cup (first..(first + Len(items) - 1)) |->
                        IF i >= first THEN MealItem(log_id, items[i - first + 1])
                        ELSE db.meal_items[i]]],
         id |-> log_id]

\* Python's None as get_meal_log returns it
NoMealLog == [none |-> TRUE]

ItemIdsOf(db, log_id) == {i \in DOMAIN db.meal_items : db.meal_items[i].meal_id = log_id}

get_meal_log(db, log_id) ==
    IF log_id \notin DOMAIN db.meal_logs THEN NoMealLog
    ELSE LET log == db.meal_logs[log_id]
             ids == SortedIds(ItemIdsOf(db, log_id))
         IN  [id |-> log_id,
              created_at |-> <<log.created_at, "Z">>,
              total_calories_kcal |-> log.total_calories_kcal,
              total_protein_g |-> log.total_protein_g,
              total_carbs_g |-> log.total_carbs_g,
              total_fat_g |-> log.total_fat_g,
              source_filename |-> log.source_filename,
              items |-> [k \in DOMAIN ids |->
                            [f \in {"label", "weight_g", "calories_kcal", "protein_g",
                                    "carbs_g", "fat_g"} |-> db.meal_items[ids[k]][f]]]]

update_meal_log(db, log_id, calories, protein, carbs, fat) ==
    IF log_id \in DOMAIN db.meal_logs
    THEN [db EXCEPT !.meal_logs[log_id].total_calories_kcal = calories,
                    !.meal_logs[log_id].total_protein_g = protein,
                    !.meal_logs[log_id].total_carbs_g = carbs,
                    !.meal_logs[log_id].total_fat_g = fat]
    ELSE db

\* the relationship without cascade="all, delete-orphan", the rows of
\* meal_items left in place
delete_meal_log_NoCascade(db, log_id) ==
    IF log_id \in DOMAIN db.meal_logs
    THEN [db EXCEPT !.meal_logs = [i \in DOMAIN db.meal_logs \ {log_id} |-> db.meal_logs[i]]]
    ELSE db

\* session.delete(log) deletes the log's items with it (cascade, line 41)
delete_meal_log(db, log_id) ==
    IF log_id \in DOMAIN db.meal_logs
    THEN [meal_logs |-> [i \in DOMAIN db.meal_logs \ {log_id} |-> db.meal_logs[i]],
          meal_items |-> [i \in DOMAIN db.meal_items \ ItemIdsOf(db, log_id) |->
                            db.meal_items[i]]]
    ELSE db

---------------------------------------------------------------------------
(* SpecLogs: main.py's log_meal, update_meal and delete_meal handlers on   *)
(* one database.  A handler's steps are its db.py calls; requests of       *)
(* different clients interleave between them.                              *)

MaxLogId == 2
MaxItemId == 4
LogIds == 1..MaxLogId

\* datetime.now() at the time of a create
Times == {"2025-11-20T12:00:00"}

\* bodies of POST /log-meal
LogMealRequests ==
    {[total_calories_kcal |-> 2500, total_protein_g |-> 77, total_carbs_g |-> 490,
      total_fat_g |-> 9, source_filename |-> "meal.jpg",
      items |-> <<[name |-> "Rice", estimated_weight_g |-> 1500,
                   estimated_calories_kcal |-> 1950, estimated_protein_g |-> 40,
                   estimated_carbs_g |-> 420, estimated_fat_g |-> 5],
                  [label |-> "Broccoli", estimated_calories_kcal |-> 550]>>],
     [total_calories_kcal |-> 0, total_protein_g |-> 0, total_carbs_g |-> 0,
      total_fat_g |-> 0, source_filename |-> NoFilename, items |-> <<>>]}

\* the body of PUT /logs/{log_id}
UpdateMealRequest ==
    [total_calories_kcal |-> 3000, total_protein_g |-> 100, total_carbs_g |-> 500,
     total_fat_g |-> 20]

Database == [meal_logs |-> meal_logs, meal_items |-> meal_items]

LogsInit ==
    ModelInit /\ PipeIdle /\ NormIdle /\ ItemIdle /\ ThreadsIdle /\ AggIdle /\ LogsIdle

Free(r) == requests[r].pc \in {"idle", "done"}

\* POST /log-meal: one create_meal_log_from_result call
LogMeal(r) ==
    /\ Free(r)
    /\ \E request \in LogMealRequests, now \in Times :
        LET created == create_meal_log_from_result(Database,
                            [f \in DOMAIN request \ {"source_filename"} |-> request[f]],
                            request.source_filename, now)
        IN  /\ created.id <= MaxLogId
            /\ \A i \in DOMAIN created.db.meal_items : i <= MaxItemId
            /\ meal_logs' = created.db.meal_logs
            /\ meal_items' = created.db.meal_items
            /\ requests' = [requests EXCEPT ![r] =
                    [op |-> "log_meal", log_id |-> created.id, pc |-> "done",
                     response |-> [status |-> 200, meal_id |-> created.id]]]
    /\ UNCHANGED <<modelVars, pipeVars, normVars, itemVars, threadVars, aggVars>>

HandlerVarsUnchanged ==
    UNCHANGED <<modelVars, pipeVars, normVars, itemVars, threadVars, aggVars>>

\* update_meal, lines 144-146: the existence check
UpdateMealCheck(r) ==
    /\ Free(r)
    /\ \E log_id \in LogIds :
        requests' = [requests EXCEPT ![r] =
            IF get_meal_log(Database, log_id) = NoMealLog
            THEN [op |-> "update_meal", log_id |-> log_id, pc |-> "done",
                  response |-> [status |-> 404]]
            ELSE [op |-> "update_meal", log_id |-> log_id, pc |-> "update_write",
                  response |-> [status |-> 0]]]
    /\ UNCHANGED <<meal_logs, meal_items>>
    /\ HandlerVarsUnchanged

\* lines 148-154: update_meal_log
UpdateMealWrite(r) ==
    /\ requests[r].pc = "update_write"
    /\ LET db == update_meal_log(Database, requests[r].log_id,
                                 UpdateMealRequest.total_calories_kcal,
                                 UpdateMealRequest.total_protein_g,
                                 UpdateMealRequest.total_carbs_g,
                                 UpdateMealRequest.total_fat_g)
       IN  /\ meal_logs' = db.meal_logs
           /\ meal_items' = db.meal_items
    /\ requests' = [requests EXCEPT ![r].pc = "update_read"]
    /\ HandlerVarsUnchanged

\* lines 157-166: the second get_meal_log and the response built from it;
\* subscripting None raises TypeError, which no handler catches (status 500)
UpdateMealRead(r) ==
    /\ requests[r].pc = "update_read"
    /\ LET updated_meal == get_meal_log(Database, requests[r].log_id)
       IN  requests' = [requests EXCEPT ![r].pc = "done", ![r].response =
                IF updated_meal = NoMealLog
                THEN [status |-> 500, error |-> "TypeError"]
                ELSE [status |-> 200,
                      id |-> updated_meal.id,
                      created_at |-> updated_meal.created_at,
                      total_calories_kcal |-> updated_meal.total_calories_kcal,
                      total_protein_g |-> updated_meal.total_protein_g,
                      total_carbs_g |-> updated_meal.total_carbs_g,
                      total_fat_g |-> updated_meal.total_fat_g,
                      source_filename |-> updated_meal.source_filename]]
    /\ UNCHANGED <<meal_logs, meal_items>>
    /\ HandlerVarsUnchanged

\* delete_meal, lines 174-176: the existence check
DeleteMealCheck(r) ==
    /\ Free(r)
    /\ \E log_id \in LogIds :
        requests' = [requests EXCEPT ![r] =
            IF get_meal_log(Database, log_id) = NoMealLog
            THEN [op |-> "delete_meal", log_id |-> log_id, pc |-> "done",
                  response |-> [status |-> 404]]
            ELSE [op |-> "delete_meal", log_id |-> log_id, pc |-> "delete_write",
                  response |-> [status |-> 0]]]
    /\ UNCHANGED <<meal_logs, meal_items>>
    /\ HandlerVarsUnchanged

\* lines 178-179: delete_meal_log and the response
DeleteMealWrite(r) ==
    /\ requests[r].pc = "delete_write"
    /\ LET db == delete_meal_log(Database, requests[r].log_id)
       IN  /\ meal_logs' = db.meal_logs
           /\ meal_items' = db.meal_items
    /\ requests' = [requests EXCEPT ![r].pc = "done",
                                    ![r].response = [status |-> 200, deleted |-> TRUE]]
    /\ HandlerVarsUnchanged

LogsNext ==
    \E r \in Requests :
        \/ LogMeal(r)
        \/ UpdateMealCheck(r)
        \/ UpdateMealWrite(r)
        \/ UpdateMealRead(r)
        \/ DeleteMealCheck(r)
        \/ DeleteMealWrite(r)

SpecLogs == LogsInit /\ [][LogsNext]_vars

---------------------------------------------------------------------------
(* Properties                                                              *)

ResultFields ==
    {"items", "total_calories_kcal", "total_protein_g", "total_carbs_g",
     "total_fat_g", "pipeline", "source"}

\* C1: run_baseline_pipeline never raises to its caller: whatever get_model
\* and detect_food_items do (raise, return any list, return an empty list)
\* and whatever the filename, the call returns a record with an items
\* sequence, the four totals, a pipeline record with a version and a source
\* record.
C1_NeverRaises ==
    phase = "done" =>
        /\ outcome = "returned"
        /\ DOMAIN result = ResultFields
        /\ DOMAIN result.items = 1..Len(result.items)
        /\ "version" \in DOMAIN result.pipeline
        /\ DOMAIN result.source = {"filename"}

\* a call in which estimate_nutrition raised on an unreadable detection, with
\* no filename, has returned
C1_Witness ==
    /\ phase = "done"
    /\ call.inner = "stub_list"
    /\ call.detections = 1
    /\ outcome = "returned"
    /\ result.pipeline.version = "fallback-mock-0.1"
    /\ result.source.filename = NoFilename

\* C2: fallback guarantee: when the detect call raises, run_baseline_pipeline
\* returns 2 or 3 items under the version tag "fallback-mock-0.1", never the
\* ML-backed tag.
C2_FallbackGuarantee ==
    (phase = "done" /\ call.inner = "detect_raised") =>
        /\ outcome = "returned"
        /\ Len(result.items) \in {2, 3}
        /\ result.pipeline.version = "fallback-mock-0.1"
        /\ result.pipeline.version # "ml-powered-1.0"

C2_Witness ==
    /\ phase = "done"
    /\ call.inner = "detect_raised"
    /\ outcome = "returned"
    /\ Len(result.items) = 3

\* C3: when the model handle was never initialized (FoodDetectionModel.model
\* is None), every run_baseline_pipeline call returns a result carrying the
\* fallback/mock version tag.
C3_UnavailableTakesFallback ==
    (phase = "done" /\ call.capability = "real" /\ ~call.model_loaded) =>
        /\ outcome = "returned"
        /\ result.pipeline.version = "fallback-mock-0.1"

\* C4: when the detection call returns normally with zero detections,
\* run_baseline_pipeline returns 2 or 3 mock items with nonzero totals under
\* the fallback tag, not an empty ML-tagged result.
C4_EmptyDetectionFallsBack ==
    (phase = "done" /\ ~call.detect_raised /\ call.detections = 0) =>
        /\ outcome = "returned"
        /\ Len(result.items) \in {2, 3}
        /\ result.total_calories_kcal > 0
        /\ result.pipeline.version = "fallback-mock-0.1"

RECURSIVE SumField(_, _)
SumField(items, field) ==
    IF items = <<>> THEN 0
    ELSE items[1][field] + SumField(Tail(items), field)

\* C5: total-consistency: in every result of either path, for 0 to 3 items,
\* each total_* field is the sum over the items of the corresponding rounded
\* per-item field.
C5_TotalConsistency ==
    (phase = "done" /\ outcome = "returned") =>
        /\ Len(result.items) \in 0..3
        /\ result.total_calories_kcal = SumField(result.items, "estimated_calories_kcal")
        /\ result.total_protein_g = SumField(result.items, "estimated_protein_g")
        /\ result.total_carbs_g = SumField(result.items, "estimated_carbs_g")
        /\ result.total_fat_g = SumField(result.items, "estimated_fat_g")

\* a live result of three items, each with calories of its own
C5_Witness ==
    /\ phase = "done"
    /\ outcome = "returned"
    /\ result.pipeline.version = "ml-powered-1.0"
    /\ Len(result.items) = 3
    /\ result.items[1].estimated_calories_kcal > 0
    /\ result.items[2].estimated_calories_kcal > result.items[1].estimated_calories_kcal
    /\ result.items[3].estimated_protein_g > 0

SpecKeywords ==
    {"chicken", "salmon", "fish", "beef", "steak", "rice", "pasta", "spaghetti",
     "bread", "toast", "potato", "fries", "broccoli", "salad", "lettuce", "carrot"}

\* C6: coverage: for every input string normalize_food_label returns a key
\* of NUTRITION_DATABASE, and "default" for a string with no exact match and
\* no keyword.
C6_Coverage ==
    code # NoCode =>
        /\ code \in DbKeys
        /\ LET l == ReplaceUnderscore(Lower(label))
           IN  ((\A k \in DbKeys : Chars(k) # l)
                    /\ (\A kw \in SpecKeywords : ~Contains(Chars(kw), l)))
                => code = "default"

C6_Witness ==
    /\ label = Chars("xyzzy_unknown_food")
    /\ code = "default"

\* C7: normalization round-trip: for every key c of NUTRITION_DATABASE,
\* normalize_food_label applied to c, and to the title-cased display form
\* of c, returns c.
C7_RoundTrip ==
    code # NoCode =>
        \A c \in DbKeys :
            label \in ({Chars(c)} \cup DisplayForms(c)) => code = c

\* C8: non-negativity: in every item of either path, volume, calories,
\* protein, carbs and fat are >= 0 and the weight is > 0, for every jitter
\* value and after rounding.
C8_NonNegative ==
    item_path # "none" =>
        /\ item.estimated_volume_ml >= 0
        /\ item.estimated_calories_kcal >= 0
        /\ item.estimated_protein_g >= 0
        /\ item.estimated_carbs_g >= 0
        /\ item.estimated_fat_g >= 0
        /\ item.estimated_weight_g > 0

\* the lightest mock item: mixed salad at the low end of the volume jitter
C8_Witness ==
    /\ item_path = "mock"
    /\ item.code = "mixed_salad"
    /\ item.estimated_volume_ml = 1350
    /\ item.estimated_weight_g = 405
    /\ item.estimated_calories_kcal >= 0

\* C9: lazy singleton: across any get_model calls, concurrent first-use
\* calls included, FoodDetectionModel is initialized at most once and every
\* caller receives the same instance.
C9_InitializedOnce ==
    /\ load_attempts <= 1
    /\ \A t1, t2 \in Threads :
        (tret[t1] # None /\ tret[t2] # None) => tret[t1] = tret[t2]

\* v is a tenth nearest to num / den
IsNearest(v, num, den) ==
    /\ 2 * (v * den - num) <= den
    /\ 2 * (num - v * den) <= den

\* C10: nutrition scaling: on the live path each of calories, protein, carbs
\* and fat is round(reference[code].value_per_100g * estimated_weight_g / 100, 1),
\* each from its own column; "broccoli" at 100 g gives 55.0, 3.7, 7.0, 0.4.
C10_NutritionScaling ==
    item_path = "live" =>
        LET ref == NUTRITION_DATABASE[item.code]
            w == item.estimated_weight_g
        IN  /\ IsNearest(item.estimated_calories_kcal, ref.calories_per_100g * w, 1000)
            /\ IsNearest(item.estimated_protein_g, ref.protein_per_100g * w, 1000)
            /\ IsNearest(item.estimated_carbs_g, ref.carbs_per_100g * w, 1000)
            /\ IsNearest(item.estimated_fat_g, ref.fat_per_100g * w, 1000)
            /\ (item.name = "broccoli" /\ w = 1000) =>
                    /\ item.code = "broccoli"
                    /\ item.estimated_calories_kcal = 550
                    /\ item.estimated_protein_g = 37
                    /\ item.estimated_carbs_g = 70
                    /\ item.estimated_fat_g = 4

C10_Witness ==
    /\ item_path = "live"
    /\ item.name = "broccoli"
    /\ item.estimated_weight_g = 1000
    /\ item.estimated_calories_kcal = 550
    /\ item.estimated_fat_g = 4

\* a label with no exact match and none of the keywords
IsUnknownLabel(s) ==
    LET l == ReplaceUnderscore(Lower(Chars(s)))
    IN  /\ \A k \in DbKeys : Chars(k) # l
        /\ \A kw \in SpecKeywords : ~Contains(Chars(kw), l)

\* C11: unknown label: a detection whose label has no exact match and none
\* of the keywords (such as "xyzzy_unknown_food") gives an item with code
\* "default" and calories from the default reference, 150.0 kcal at 100 g.
C11_UnknownLabel ==
    (item_path = "live" /\ item.name \in TableStrings /\ IsUnknownLabel(item.name)) =>
        /\ item.code = "default"
        /\ IsNearest(item.estimated_calories_kcal, 1500 * item.estimated_weight_g, 1000)
        /\ item.estimated_weight_g = 1000 => item.estimated_calories_kcal = 1500

C11_Witness ==
    /\ item_path = "live"
    /\ item.name = "xyzzy_unknown_food"
    /\ item.code = "default"
    /\ item.estimated_weight_g = 1000
    /\ item.estimated_calories_kcal = 1500

\* the rule order the specification lists, each rule with the code it gives
SpecRuleOrder ==
    << <<{"chicken"}, "grilled_chicken">>, <<{"salmon", "fish"}, "salmon">>,
       <<{"beef", "steak"}, "steak">>, <<{"rice"}, "rice">>,
       <<{"pasta", "spaghetti"}, "pasta">>, <<{"bread", "toast"}, "bread">>,
       <<{"potato", "fries"}, "potato">>, <<{"broccoli"}, "broccoli">>,
       <<{"salad", "lettuce"}, "salad">>, <<{"carrot"}, "carrots">> >>

SpecRuleHits(l, i) == \E kw \in SpecRuleOrder[i][1] : Contains(Chars(kw), l)

\* C13: keyword priority: a label with no exact match that contains the
\* substrings of several rules resolves to the earliest rule in the order
\* chicken, salmon/fish, beef/steak, rice, pasta/spaghetti, bread/toast,
\* potato/fries, broccoli, salad/lettuce, carrot.
C13_KeywordPriority ==
    code # NoCode =>
        LET l == ReplaceUnderscore(Lower(label))
        IN  (\A k \in DbKeys : Chars(k) # l) =>
                \A i \in 1..Len(SpecRuleOrder) :
                    (SpecRuleHits(l, i) /\ \A j \in 1..(i - 1) : ~SpecRuleHits(l, j))
                        => code = SpecRuleOrder[i][2]

\* "chicken_salad" holds the keywords of the first and of the ninth rule
C13_Witness ==
    /\ label = Chars("chicken_salad")
    /\ code = "grilled_chicken"

MockLabels == {"grilled_chicken_breast", "steamed_rice", "broccoli", "mixed_salad"}

\* C12: whenever decoding the image or running the model fails during a
\* primary-path call, run_baseline_pipeline returns run_fallback_pipeline's
\* result: the fallback version tag and items drawn from the fallback
\* candidate set, not a result tagged as ML-backed.
C12_InnerErrorTakesFallback ==
    (phase = "done" /\ call.inner \in {"decode_error", "inference_error"}) =>
        /\ outcome = "returned"
        /\ result.pipeline.version = "fallback-mock-0.1"
        /\ \A i \in DOMAIN result.items : result.items[i].code \in MockLabels

PresetConfidence ==
    [c \in MockLabels |->
        CASE c = "grilled_chicken_breast" -> 78
          [] c = "steamed_rice" -> 72
          [] c = "broccoli" -> 68
          [] c = "mixed_salad" -> 65]

IsFallbackResult ==
    /\ phase = "done"
    /\ outcome = "returned"
    /\ result.pipeline.version = "fallback-mock-0.1"

\* C16 as stated: every item of a fallback result has a code that is a key
\* of NUTRITION_DATABASE, the codes are pairwise distinct and each item
\* carries its preset confidence.
C16_FallbackCodesInDatabase ==
    IsFallbackResult =>
        /\ \A i \in DOMAIN result.items : result.items[i].code \in DbKeys
        /\ \A i, j \in DOMAIN result.items :
            i # j => result.items[i].code # result.items[j].code
        /\ \A i \in DOMAIN result.items :
            result.items[i].code \in MockLabels
                => result.items[i].confidence = PresetConfidence[result.items[i].code]

\* C16, amended: every item of a fallback result has a code that is a key of
\* the fallback path's own tables (DENSITY_TABLE_G_PER_ML,
\* CALORIE_TABLE_KCAL_PER_100G, MACROS_TABLE_PER_100G), the codes are
\* pairwise distinct and each item carries its preset confidence.
C16_FallbackCodesInMockTables ==
    IsFallbackResult =>
        /\ \A i \in DOMAIN result.items :
            result.items[i].code \in
                (DOMAIN DENSITY_TABLE_G_PER_ML \cap DOMAIN CALORIE_TABLE_KCAL_PER_100G
                    \cap DOMAIN MACROS_TABLE_PER_100G)
        /\ \A i, j \in DOMAIN result.items :
            i # j => result.items[i].code # result.items[j].code
        /\ \A i \in DOMAIN result.items :
            /\ result.items[i].code \in MockLabels
            /\ result.items[i].confidence = PresetConfidence[result.items[i].code]

C16_Witness ==
    /\ IsFallbackResult
    /\ Len(result.items) = 3
    /\ result.items[1].code = "mixed_salad"
    /\ result.items[1].confidence = 65
    /\ result.items[2].code = "grilled_chicken_breast"
    /\ result.items[3].code = "steamed_rice"

\* C17: no retry: within one run_baseline_pipeline call the detect call is
\* made at most once; if it fails the fallback path follows, with no second
\* detect call and no second model initialization; a failed initialization
\* is cached, so later calls do not load the model again.
C17_NoRetry ==
    /\ load_attempts <= 1
    /\ phase = "done" =>
        /\ call.detect_calls <= 1
        /\ call.detect_raised =>
            /\ outcome = "returned"
            /\ result.pipeline.version = "fallback-mock-0.1"

\* a later call on an instance whose model failed to load: still one load
C17_Witness ==
    /\ phase = "done"
    /\ call.capability = "real"
    /\ ~call.constructed
    /\ TRANSFORMERS_AVAILABLE
    /\ _model_instance.model = "none"
    /\ call.detect_calls = 1
    /\ load_attempts = 1

\* the density (hundredths of g/ml) each path uses for an item's code
ItemDensity ==
    IF item_path = "live" THEN NUTRITION_DATABASE[item.code].density_g_per_ml
    ELSE Get(DENSITY_TABLE_G_PER_ML, item.code, 100)

\* C14 as stated: in every item, weight-first or volume-first,
\* estimated_volume_ml equals estimated_weight_g / density at one decimal.
C14_VolumeIsWeightOverDensity ==
    item_path # "none" =>
        IsNearest(item.estimated_volume_ml, item.estimated_weight_g * 100, ItemDensity)

\* C14, amended: a weight-first (live) item has estimated_volume_ml =
\* round(estimated_weight_g / density, 1); a volume-first (fallback) item has
\* estimated_weight_g = round(estimated_volume_ml * density, 1), with the
\* fallback table's density and 1.0 g/ml when the code is absent from it.
C14_VolumeWeightConsistency ==
    /\ item_path = "live" =>
        IsNearest(item.estimated_volume_ml, item.estimated_weight_g * 100, ItemDensity)
    /\ item_path = "mock" =>
        IsNearest(item.estimated_weight_g, item.estimated_volume_ml * ItemDensity, 100)

\* a fallback item whose weight / density is 135.0 ml for a volume of 135.1 ml
C14_Witness ==
    /\ item_path = "mock"
    /\ item.code = "mixed_salad"
    /\ item.estimated_volume_ml = 1351
    /\ item.estimated_weight_g = 405

\* C15: order and multiplicity are preserved: the items sequence has one
\* entry per detection given to the aggregation step, entry i carrying
\* detection i's name, code and confidence (rounded to two decimals);
\* detections normalizing to the same code stay separate entries and every
\* entry is counted in the totals.
C15_OrderAndMultiplicity ==
    agg_path # "none" =>
        /\ Len(agg_out.items) = Len(agg_in)
        /\ \A i \in DOMAIN agg_in :
            LET d == agg_in[i]
                it == agg_out.items[i]
            IN  /\ it.confidence \in Round2(d.confidence)
                /\ agg_path = "live" =>
                    /\ it.name = d.display_name
                    /\ it.code = normalize_food_label(Chars(d.label))
                /\ agg_path = "mock" =>
                    /\ it.name = Get(DISPLAY_NAMES, d.label, d.label)
                    /\ it.code = d.label
        /\ agg_out.total_calories_kcal = SumField(agg_out.items, "estimated_calories_kcal")
        /\ agg_out.total_protein_g = SumField(agg_out.items, "estimated_protein_g")
        /\ agg_out.total_carbs_g = SumField(agg_out.items, "estimated_carbs_g")
        /\ agg_out.total_fat_g = SumField(agg_out.items, "estimated_fat_g")

\* rice, fried rice, rice: three entries of code "rice", in input order
C15_Witness ==
    /\ agg_path = "live"
    /\ Len(agg_in) = 3
    /\ agg_in[1].label = "rice"
    /\ agg_in[2].label = "fried_rice"
    /\ agg_in[3].label = "rice"
    /\ Len(agg_out.items) = 3
    /\ agg_out.items[1].name = "Rice"
    /\ agg_out.items[2].name = "Fried Rice"
    /\ \A i \in 1..3 : agg_out.items[i].code = "rice"
    /\ agg_out.total_calories_kcal > agg_out.items[1].estimated_calories_kcal
                                        + agg_out.items[2].estimated_calories_kcal

\* C18: an update_meal request interleaved with a delete_meal request on the
\* same id ends with 404 or with a response describing the stored log, never
\* with an unhandled error.
C18_UpdateNeverUnhandled ==
    \A r \in Requests :
        (requests[r].op = "update_meal" /\ requests[r].pc = "done") =>
            \/ requests[r].response.status = 404
            \/ /\ requests[r].response.status = 200
               /\ requests[r].response.id = requests[r].log_id

C19_NoOrphans ==
    \A i \in DOMAIN meal_items : meal_items[i].meal_id \in DOMAIN meal_logs

\* what a step of update_meal_log or delete_meal_log may change
C19_Step ==
    /\ \A r \in Requests :
        (requests[r].pc = "update_write" /\ requests'[r].pc = "update_read") =>
            LET id == requests[r].log_id
            IN  /\ meal_items' = meal_items
                /\ DOMAIN meal_logs' = DOMAIN meal_logs
                /\ \A j \in DOMAIN meal_logs : j # id => meal_logs'[j] = meal_logs[j]
                /\ id \in DOMAIN meal_logs =>
                    /\ meal_logs'[id].created_at = meal_logs[id].created_at
                    /\ meal_logs'[id].source_filename = meal_logs[id].source_filename
                    /\ meal_logs'[id].total_calories_kcal = UpdateMealRequest.total_calories_kcal
                    /\ meal_logs'[id].total_fat_g = UpdateMealRequest.total_fat_g
    /\ \A r \in Requests :
        (requests[r].pc = "delete_write" /\ requests'[r].pc = "done") =>
            LET id == requests[r].log_id
            IN  /\ id \notin DOMAIN meal_logs => UNCHANGED <<meal_logs, meal_items>>
                /\ id \notin DOMAIN meal_logs'
                /\ \A j \in DOMAIN meal_logs \ {id} :
                    j \in DOMAIN meal_logs' /\ meal_logs'[j] = meal_logs[j]
                /\ \A i \in DOMAIN meal_items :
                    meal_items[i].meal_id # id =>
                        i \in DOMAIN meal_items' /\ meal_items'[i] = meal_items[i]

\* C19: no orphan items: after every create, update and delete every stored
\* MealItem references a MealLog that exists; update_meal_log changes only
\* the four totals of the addressed log; update and delete on an id that
\* does not exist change nothing.
C19_NoOrphanItems == [][C19_NoOrphans' /\ C19_Step]_vars

\* a log with items was deleted (item ids 1 and 2 are gone) while another
\* log keeps its items and carries updated totals
C19_Witness ==
    /\ \E r \in Requests :
        /\ requests[r].op = "delete_meal"
        /\ requests[r].pc = "done"
        /\ requests[r].response.status = 200
        /\ requests[r].log_id \notin DOMAIN meal_logs
    /\ DOMAIN meal_items = {3, 4}
    /\ DOMAIN meal_logs = {2}
    /\ meal_logs[2].total_calories_kcal = UpdateMealRequest.total_calories_kcal
    /\ meal_logs[2].source_filename = "meal.jpg"

============================================================================
